---- MODULE Spec2Model ----
(***************************************************************************)
(* Model of the PageDB search engine (src/pagedb.py) as served by          *)
(* src/server.py: the term dictionary, the page store, the PageRank loop   *)
(* of the constructor and the query operation.                             *)
(*                                                                         *)
(* Numbers.  Python floats are modelled as reduced fractions               *)
(* [n |-> numerator, d |-> denominator] with d > 0.  The arithmetic of     *)
(* pagerank() is rounded down to a grid of 1/SCALE, which stands for the   *)
(* rounding of float arithmetic and keeps every numerator within TLC's     *)
(* integers; divisions in normalize() are exact fractions, so x / x is     *)
(* exactly 1 as it is in IEEE arithmetic.                                  *)
(***************************************************************************)
EXTENDS Integers, Sequences, FiniteSets, TLC

VARIABLES
    words,      \* PageDB.words: dict term -> id
    pages,      \* PageDB.pages: list of Page objects
    pc,         \* position of the constructor / server
    i,          \* PageDB.__init__: iteration counter i
    j,          \* PageDB.__init__: page counter j
    ranks,      \* PageDB.__init__: list ranks of the current iteration
    ret,        \* locals and return value of the last completed query()
    thr         \* per-thread position inside a concurrently served query()

vars == <<words, pages, pc, i, j, ranks, ret, thr>>

(***************************************************************************)
(* Bounds of the model.                                                    *)
(***************************************************************************)
MaxPages == 2       \* pages ingested by the step-wise constructor
MaxQuery == 2       \* tokens per query string of the serving specification
ServePages == 6     \* pages of the stores the serving specification starts from
ConcPages == 2      \* pages of the stores the concurrent specification starts from
NumThreads == 2     \* requests the threaded server handles at once
SCALE == 10000      \* resolution of the grid pagerank() arithmetic is rounded to

(***************************************************************************)
(* Program constants.                                                      *)
(***************************************************************************)
max_iterations == 20    \* __init__: max_iterations = 20
TOPK == 5               \* query: sorted(...)[:5]
SENTINEL == 100000      \* document_location: score += 100000

(***************************************************************************)
(* Inputs.                                                                 *)
(***************************************************************************)
UrlNames == <<"A", "B", "C", "D", "E", "F", "G", "H">>
Url(k) == UrlNames[k]
Absent == "X"                       \* a link target that is no page of the corpus
QueryTokens == {"guitar", "Amp", "zz"}  \* tokens of query strings

\* The files the step-wise constructor can read, each a Words file and a Links
\* file: any contents without links, and any set of links with one contents (the
\* solver reads no page's words, ingestion no page's links).
FileContents == {<<>>, <<"guitar">>, <<"amp", "guitar", "amp">>, <<"guitar", "guitar", "amp">>}
LinkTargets(n) == {Url(k) : k \in 1..n} \cup {Absent}
Files(n) ==
    {[toks |-> t, links |-> {}] : t \in FileContents}
    \cup {[toks |-> <<"guitar">>, links |-> l] : l \in SUBSET LinkTargets(n)}

\* Query strings served after the step-wise constructor.
BuildTexts == {<<>>, <<"guitar">>, <<"Amp", "zz">>}

\* Corpora of the serving specification: the files hold these contents in turn,
\* from any of them on, and the links files follow one of these shapes.
ServeContents == << <<"guitar", "guitar", "amp">>, <<"amp">>, <<"amp", "pick", "guitar">> >>
ContentOf(first, k) == ServeContents[((first + k - 2) % Len(ServeContents)) + 1]
Shapes == {"none", "hub", "back"}
ShapeLinks(shape, n, k) ==
    CASE shape = "none" -> {}
      [] shape = "hub" -> IF k = 1 THEN {Url(n), Absent} ELSE {Url(1)}
      [] shape = "back" -> {Url(m) : m \in 1..k}

\* Query strings of the concurrently served requests.
ConcTexts == {<<"zz">>, <<"Amp", "yy">>, <<"yy", "zz">>}

SeqsUpTo(S, n) == UNION {[1..m -> S] : m \in 0..n}

(***************************************************************************)
(* Fractions.                                                              *)
(***************************************************************************)
RECURSIVE GCD(_, _)
GCD(a, b) == IF b = 0 THEN a ELSE GCD(b, a % b)

Abs(x) == IF x < 0 THEN -x ELSE x

Reduce(n, d) ==
    LET g == GCD(Abs(n), d) IN [n |-> n \div g, d |-> d \div g]

Num(k) == [n |-> k, d |-> 1]
One == Num(1)
\* x <= y, comparing the integer parts first so that no product overflows.
Leq(x, y) ==
    LET fx == x.n \div x.d
        fy == y.n \div y.d
    IN IF fx # fy THEN fx < fy
       ELSE (x.n % x.d) * y.d <= (y.n % y.d) * x.d
Less(x, y) == ~Leq(y, x)
Add(x, y) == Reduce(x.n * y.d + y.n * x.d, x.d * y.d)
Mul(x, y) == Reduce(x.n * y.n, x.d * y.d)
Div(x, y) == Reduce(x.n * y.d, x.d * y.n)
MaxNum(x, y) == IF Leq(y, x) THEN x ELSE y

RECURSIVE MaxOf(_)
MaxOf(s) == IF Len(s) = 1 THEN s[1] ELSE MaxNum(s[1], MaxOf(Tail(s)))

RECURSIVE MinOf(_)
MinOf(s) ==
    IF Len(s) = 1 THEN s[1]
    ELSE LET m == MinOf(Tail(s)) IN IF Leq(s[1], m) THEN s[1] ELSE m

\* The value 0.00001 of normalize().
Clamp == [n |-> 1, d |-> 100000]

\* A fraction on the grid of 1/SCALE, rounded down, and back.
ToGrid(x) == (x.n * SCALE) \div x.d
FromGrid(g) == Reduce(g, SCALE)

(***************************************************************************)
(* Page and the term dictionary.                                           *)
(***************************************************************************)
EmptyDict == [w \in {} |-> 0]

Page(url, word_ints, links) ==
    [url |-> url, words |-> word_ints, links |-> links, pagerank |-> One]

\* Mutant of get_id_for_word: the new id is taken after the word is counted.
get_id_for_wordMut(ws, word) ==
    IF word \in DOMAIN ws
    THEN [words |-> ws, id |-> ws[word]]
    ELSE [words |-> ws @@ (word :> Cardinality(DOMAIN ws) + 1),
          id |-> Cardinality(DOMAIN ws) + 1]

\* get_id_for_word: the dictionary after the call and the id returned.
get_id_for_word(ws, word) ==
    IF word \in DOMAIN ws
    THEN [words |-> ws, id |-> ws[word]]
    ELSE LET added == ws @@ (word :> Cardinality(DOMAIN ws))
         IN [words |-> added, id |-> Cardinality(DOMAIN added) - 1]

\* The loop "for word in ...: ints.append(self.get_id_for_word(word))".
RECURSIVE IdsForWords(_, _, _)
IdsForWords(ws, toks, acc) ==
    IF toks = <<>> THEN [words |-> ws, ids |-> acc]
    ELSE LET r == get_id_for_word(ws, Head(toks))
         IN IdsForWords(r.words, Tail(toks), Append(acc, r.id))

(***************************************************************************)
(* The Authority Solver.                                                   *)
(***************************************************************************)
\* pagerank(page): the loop over all pages, then 0.85 * pr + 0.15.
RECURSIVE InlinkSum(_, _, _)
InlinkSum(pgs, url, k) ==
    IF k > Len(pgs) THEN 0
    ELSE (IF url \in pgs[k].links
          THEN ToGrid(pgs[k].pagerank) \div Cardinality(pgs[k].links)
          ELSE 0) + InlinkSum(pgs, url, k + 1)

pagerank(pgs, page) ==
    FromGrid((85 * InlinkSum(pgs, page.url, 1)) \div 100 + (15 * SCALE) \div 100)

\* while i < len(scores): scores[i] = min_val / max(scores[i], 0.00001)
RECURSIVE ScaleSmall(_, _, _)
ScaleSmall(scores, min_val, k) ==
    IF k > Len(scores) THEN <<>>
    ELSE <<Div(min_val, MaxNum(scores[k], Clamp))>> \o ScaleSmall(scores, min_val, k + 1)

\* while i < len(scores): scores[i] = scores[i] / max_val
RECURSIVE ScaleLarge(_, _, _)
ScaleLarge(scores, max_val, k) ==
    IF k > Len(scores) THEN <<>>
    ELSE <<Div(scores[k], max_val)>> \o ScaleLarge(scores, max_val, k + 1)

\* Mutant of normalize: the small-is-better scores are scaled but not inverted.
normalizeMut(scores, small_is_better) ==
    IF small_is_better
    THEN ScaleLarge(scores, MaxNum(MinOf(scores), Clamp), 1)
    ELSE ScaleLarge(scores, MaxNum(MaxOf(scores), Clamp), 1)

\* normalize(scores, small_is_better), for a non-empty list; on an empty list
\* min() and max() raise ValueError, which the callers model.
normalize(scores, small_is_better) ==
    IF small_is_better
    THEN ScaleSmall(scores, MinOf(scores), 1)
    ELSE ScaleLarge(scores, MaxNum(MaxOf(scores), Clamp), 1)

(***************************************************************************)
(* The Query Engine.                                                       *)
(***************************************************************************)
\* str.lower() on the tokens a query string can hold.
Lower(tok) == IF tok = "Amp" THEN "amp" ELSE tok

\* query.lower().split(): a query string is modelled by its whitespace-separated
\* tokens, each lowercased.
LowerSplit(text) == [k \in 1..Len(text) |-> Lower(text[k])]

\* "i in page.words"
InList(x, s) == \E k \in 1..Len(s) : s[k] = x

\* for i in query_ints: if i in page.words: matches.append(page); break
RECURSIVE HitsPage(_, _, _)
HitsPage(page, query_ints, k) ==
    IF k > Len(query_ints) THEN FALSE
    ELSE IF InList(query_ints[k], page.words) THEN TRUE
    ELSE HitsPage(page, query_ints, k + 1)

\* Mutant of FindMatches: the break is missing, a page is appended once for
\* every query term it holds.
RECURSIVE AppendPerHit(_, _, _, _)
AppendPerHit(pgs, query_ints, k, t) ==
    IF t > Len(query_ints) THEN <<>>
    ELSE (IF InList(query_ints[t], pgs[k].words) THEN <<k>> ELSE <<>>)
         \o AppendPerHit(pgs, query_ints, k, t + 1)

RECURSIVE FindMatchesMut(_, _, _)
FindMatchesMut(pgs, query_ints, k) ==
    IF k > Len(pgs) THEN <<>>
    ELSE AppendPerHit(pgs, query_ints, k, 1) \o FindMatchesMut(pgs, query_ints, k + 1)

\* for page in self.pages: ...; matches holds the pages by their index.
RECURSIVE FindMatches(_, _, _)
FindMatches(pgs, query_ints, k) ==
    IF k > Len(pgs) THEN <<>>
    ELSE (IF HitsPage(pgs[k], query_ints, 1) THEN <<k>> ELSE <<>>)
         \o FindMatches(pgs, query_ints, k + 1)

\* list.count(q)
RECURSIVE Count(_, _)
Count(s, q) ==
    IF s = <<>> THEN 0
    ELSE (IF Head(s) = q THEN 1 ELSE 0) + Count(Tail(s), q)

\* list.index(w): the 0-based index of the first occurrence, -1 for ValueError.
RECURSIVE Index(_, _, _)
Index(s, w, k) ==
    IF k > Len(s) THEN -1
    ELSE IF s[k] = w THEN k - 1
    ELSE Index(s, w, k + 1)

RECURSIVE word_frequency(_, _)
word_frequency(page, query_ints) ==
    IF query_ints = <<>> THEN 0
    ELSE Count(page.words, Head(query_ints))
         + word_frequency(page, Tail(query_ints))

\* Mutant of document_location: the index is added without the + 1.
RECURSIVE document_locationMut(_, _)
document_locationMut(page, query_ints) ==
    IF query_ints = <<>> THEN 0
    ELSE (LET ix == Index(page.words, Head(query_ints), 1)
          IN IF ix >= 0 THEN ix ELSE SENTINEL)
         + document_locationMut(page, Tail(query_ints))

RECURSIVE document_location(_, _)
document_location(page, query_ints) ==
    IF query_ints = <<>> THEN 0
    ELSE (LET ix == Index(page.words, Head(query_ints), 1)
          IN IF ix >= 0 THEN ix + 1 ELSE SENTINEL)
         + document_location(page, Tail(query_ints))

\* round(x, 2): the nearest hundredth, an exact tie going to the even one.
RoundHalfEven(num, den) ==
    LET q == num \div den
        r == num % den
    IN IF 2 * r < den THEN q
       ELSE IF 2 * r > den THEN q + 1
       ELSE IF q % 2 = 0 THEN q ELSE q + 1

Round2(x) == Reduce(RoundHalfEven(100 * x.n, x.d), 100)

\* One row of result: [url, total, res1, res2, res3].
Row(page, content, location) ==
    LET res1 == Round2(content)
        res2 == Round2(Mul(location, [n |-> 4, d |-> 5]))
        res3 == Round2(Mul(page.pagerank, [n |-> 1, d |-> 2]))
        total == Round2(Add(Add(res1, res2), res3))
    IN [url |-> page.url, total |-> total, content |-> res1,
        location |-> res2, pagerank |-> res3]

\* sorted(result, key=lambda x: x[1], reverse=True): a stable sort, rows of
\* equal total keep their order.
RECURSIVE InsertRow(_, _)
InsertRow(row, s) ==
    IF s = <<>> THEN <<row>>
    ELSE IF Less(Head(s).total, row.total) THEN <<row>> \o s
    ELSE <<Head(s)>> \o InsertRow(row, Tail(s))

RECURSIVE SortRows(_, _)
SortRows(rows, acc) ==
    IF rows = <<>> THEN acc
    ELSE SortRows(Tail(rows), InsertRow(Head(rows), acc))

\* s[:n]
Prefix(s, n) == SubSeq(s, 1, IF Len(s) < n THEN Len(s) ELSE n)

\* Mutant of Sorted: the list is cut to its first rows before it is sorted.
SortedMut(rows) == SortRows(Prefix(rows, TOPK), <<>>)

Sorted(rows) == SortRows(rows, <<>>)

\* while i < len(matches): scores["content"].append(...)
RECURSIVE ContentScores(_, _, _, _)
ContentScores(pgs, matches, query_ints, k) ==
    IF k > Len(matches) THEN <<>>
    ELSE <<Num(word_frequency(pgs[matches[k]], query_ints))>>
         \o ContentScores(pgs, matches, query_ints, k + 1)

\* while i < len(matches): scores["location"].append(...)
RECURSIVE LocationScores(_, _, _, _)
LocationScores(pgs, matches, query_ints, k) ==
    IF k > Len(matches) THEN <<>>
    ELSE <<Num(document_location(pgs[matches[k]], query_ints))>>
         \o LocationScores(pgs, matches, query_ints, k + 1)

\* while i < len(matches): result.append([url, total, res1, res2, res3])
RECURSIVE Rows(_, _, _, _, _)
Rows(pgs, matches, content, location, k) ==
    IF k > Len(matches) THEN <<>>
    ELSE <<Row(pgs[matches[k]], content[k], location[k])>>
         \o Rows(pgs, matches, content, location, k + 1)

\* The part of query() after the matching loop: the locals at its return.
Rank(pgs, text, query_ints, matches) ==
    LET raw_content == ContentScores(pgs, matches, query_ints, 1)
        raw_location == LocationScores(pgs, matches, query_ints, 1)
        content == IF Len(matches) > 0 THEN normalize(raw_content, FALSE) ELSE raw_content
        location == IF Len(matches) > 0 THEN normalize(raw_location, TRUE) ELSE raw_location
        result == Rows(pgs, matches, content, location, 1)
    IN [called |-> TRUE, text |-> text, query_ints |-> query_ints,
        matches |-> matches, raw_content |-> raw_content,
        raw_location |-> raw_location, content |-> content,
        location |-> location, result |-> result,
        data |-> Prefix(Sorted(result), TOPK), amount |-> Len(result)]

\* Mutant of query: the halved, rounded pagerank is written back to the pages.
queryMut(ws, pgs, text) ==
    LET r == IdsForWords(ws, LowerSplit(text), <<>>)
    IN [words |-> r.words,
        pages |-> [k \in 1..Len(pgs) |->
                     [pgs[k] EXCEPT !.pagerank = Round2(Mul(@, [n |-> 1, d |-> 2]))]],
        ret |-> Rank(pgs, text, r.ids, FindMatches(pgs, r.ids, 1))]

\* query(query): the dictionary and the pages after the call, and the locals at
\* its return.
query(ws, pgs, text) ==
    LET r == IdsForWords(ws, LowerSplit(text), <<>>)
    IN [words |-> r.words,
        pages |-> pgs,
        ret |-> Rank(pgs, text, r.ids, FindMatches(pgs, r.ids, 1))]

NoRet ==
    [called |-> FALSE, text |-> <<>>, query_ints |-> <<>>, matches |-> <<>>,
     raw_content |-> <<>>, raw_location |-> <<>>, content |-> <<>>,
     location |-> <<>>, result |-> <<>>, data |-> <<>>, amount |-> 0]

NoThreads == <<>>

(***************************************************************************)
(* The constructor, step by step.                                          *)
(***************************************************************************)
Init ==
    /\ words = EmptyDict
    /\ pages = <<>>
    /\ pc = "ingest"
    /\ i = 0
    /\ j = 0
    /\ ranks = <<>>
    /\ ret = NoRet
    /\ thr = NoThreads

\* One file of the Words directory: its tokens through get_id_for_word, its
\* links file, and the new Page appended.
IngestFile ==
    /\ pc = "ingest"
    /\ Len(pages) < MaxPages
    /\ \E file \in Files(MaxPages) :
         \E r \in {IdsForWords(words, file.toks, <<>>)} :
            /\ words' = r.words
            /\ pages' = Append(pages, Page(Url(Len(pages) + 1), r.ids, file.links))
    /\ UNCHANGED <<pc, i, j, ranks, ret, thr>>

\* os.walk is exhausted: i = 0 and the first pass of the while loop begins.
StartRank ==
    /\ pc = "ingest"
    /\ pc' = "compute"
    /\ i' = 0
    /\ j' = 0
    /\ ranks' = <<>>
    /\ UNCHANGED <<words, pages, ret, thr>>

\* Mutant of ComputeRank: the score is written to the page as soon as it is
\* computed.
ComputeRankMut ==
    /\ pc = "compute"
    /\ j < Len(pages)
    /\ ranks' = Append(ranks, pagerank(pages, pages[j + 1]))
    /\ pages' = [pages EXCEPT ![j + 1].pagerank = pagerank(pages, pages[j + 1])]
    /\ j' = j + 1
    /\ UNCHANGED <<words, pc, i, ret, thr>>

\* ranks.append(self.pagerank(self.pages[j])); j += 1
ComputeRank ==
    /\ pc = "compute"
    /\ j < Len(pages)
    /\ ranks' = Append(ranks, pagerank(pages, pages[j + 1]))
    /\ j' = j + 1
    /\ UNCHANGED <<words, pages, pc, i, ret, thr>>

\* Mutant of EndCompute: the last pass is taken to be pass max_iterations.
EndComputeMut ==
    /\ pc = "compute"
    /\ j = Len(pages)
    /\ j' = 0
    /\ IF i = max_iterations
       THEN IF ranks = <<>>
            THEN pc' = "fault" /\ ranks' = ranks
            ELSE pc' = "assign" /\ ranks' = normalize(ranks, FALSE)
       ELSE pc' = "assign" /\ ranks' = ranks
    /\ UNCHANGED <<words, pages, i, ret, thr>>

\* j = 0; if i == max_iterations-1: self.normalize(ranks, False)
\* max() of an empty list raises ValueError out of the constructor.
EndCompute ==
    /\ pc = "compute"
    /\ j = Len(pages)
    /\ j' = 0
    /\ IF i = max_iterations - 1
       THEN IF ranks = <<>>
            THEN pc' = "fault" /\ ranks' = ranks
            ELSE pc' = "assign" /\ ranks' = normalize(ranks, FALSE)
       ELSE pc' = "assign" /\ ranks' = ranks
    /\ UNCHANGED <<words, pages, i, ret, thr>>

\* self.pages[j].pagerank = ranks[j]; j += 1
AssignRank ==
    /\ pc = "assign"
    /\ j < Len(pages)
    /\ pages' = [pages EXCEPT ![j + 1].pagerank = ranks[j + 1]]
    /\ j' = j + 1
    /\ UNCHANGED <<words, pc, i, ranks, ret, thr>>

\* i += 1, and the next pass (ranks = list(), j = 0) or the end of __init__.
EndIter ==
    /\ pc = "assign"
    /\ j = Len(pages)
    /\ i' = i + 1
    /\ IF i + 1 < max_iterations
       THEN pc' = "compute" /\ ranks' = <<>> /\ j' = 0
       ELSE pc' = "serve" /\ ranks' = ranks /\ j' = j
    /\ UNCHANGED <<words, pages, ret, thr>>

\* search(search_term) of server.py: one whole query on the built engine.
QueryOver(texts) ==
    /\ pc = "serve"
    /\ \E text \in texts :
         \E q \in {query(words, pages, text)} :
            /\ words' = q.words
            /\ pages' = q.pages
            /\ ret' = q.ret
    /\ UNCHANGED <<pc, i, j, ranks, thr>>

Query == QueryOver(BuildTexts)

Next ==
    \/ IngestFile
    \/ StartRank
    \/ ComputeRank
    \/ EndCompute
    \/ AssignRank
    \/ EndIter
    \/ Query

Spec == Init /\ [][Next]_vars

(***************************************************************************)
(* The constructor as one operation: PAGEDB = PageDB(dataset).             *)
(***************************************************************************)
\* The for loop over the files: corpus is the list of [toks, links] read.
RECURSIVE IngestAll(_, _, _)
IngestAll(ws, pgs, corpus) ==
    IF corpus = <<>> THEN [words |-> ws, pages |-> pgs]
    ELSE LET r == IdsForWords(ws, Head(corpus).toks, <<>>)
         IN IngestAll(r.words,
                      Append(pgs, Page(Url(Len(pgs) + 1), r.ids, Head(corpus).links)),
                      Tail(corpus))

\* while j < len(self.pages): ranks.append(self.pagerank(self.pages[j]))
RECURSIVE ComputeRanks(_, _)
ComputeRanks(pgs, k) ==
    IF k > Len(pgs) THEN <<>>
    ELSE <<pagerank(pgs, pgs[k])>> \o ComputeRanks(pgs, k + 1)

\* while j < len(self.pages): self.pages[j].pagerank = ranks[j]
RECURSIVE AssignRanks(_, _, _)
AssignRanks(pgs, rks, k) ==
    IF k > Len(pgs) THEN <<>>
    ELSE <<[pgs[k] EXCEPT !.pagerank = rks[k]]>> \o AssignRanks(pgs, rks, k + 1)

\* One pass of "while i < max_iterations" over a non-empty store.
Iterate(pgs, it) ==
    LET computed == ComputeRanks(pgs, 1)
    IN AssignRanks(pgs,
                   IF it = max_iterations - 1 THEN normalize(computed, FALSE)
                   ELSE computed,
                   1)

\* The passes from pass it on.  (Each pass is bound to a value before the next
\* one starts, so that TLC evaluates it once.)
RECURSIVE Solve(_, _)
Solve(pgs, it) ==
    IF it >= max_iterations THEN pgs
    ELSE CHOOSE done \in {Solve(nxt, it + 1) : nxt \in {Iterate(pgs, it)}} : TRUE

Build(corpus) ==
    LET ing == IngestAll(EmptyDict, <<>>, corpus)
    IN [words |-> ing.words, pages |-> Solve(ing.pages, 0)]

\* The engines server.py can hold once PageDB(dataset) has returned, for the
\* corpora of at most maxPages files.
BuiltStores(maxPages) ==
    {Build([k \in 1..n |-> [toks |-> ContentOf(first, k), links |-> ShapeLinks(shape, n, k)]]) :
        n \in 1..maxPages, shape \in Shapes, first \in 1..Len(ServeContents)}

InitServe ==
    \E b \in BuiltStores(ServePages) :
        /\ words = b.words
        /\ pages = b.pages
        /\ pc = "serve"
        /\ i = max_iterations
        /\ j = Len(b.pages)
        /\ ranks = [k \in 1..Len(b.pages) |-> b.pages[k].pagerank]
        /\ ret = NoRet
        /\ thr = NoThreads

QueryServe == QueryOver(SeqsUpTo(QueryTokens, MaxQuery))

NextServe == QueryServe

SpecServe == InitServe /\ [][NextServe]_vars

(***************************************************************************)
(* Concurrent requests.  APP.run() serves each request in a thread of its  *)
(* own, all calling PAGEDB.query on the one engine; the interpreter may    *)
(* switch threads between any two bytecodes, so a thread's step is one     *)
(* read or one write of self.words.                                        *)
(***************************************************************************)
Threads == 1..NumThreads

IdleThread == [pc |-> "idle", text |-> <<>>, k |-> 0, n |-> 0, query_ints |-> <<>>]

InitConc ==
    \E b \in BuiltStores(ConcPages) :
        /\ words = b.words
        /\ pages = b.pages
        /\ pc = "serve"
        /\ i = max_iterations
        /\ j = Len(b.pages)
        /\ ranks = [k \in 1..Len(b.pages) |-> b.pages[k].pagerank]
        /\ ret = NoRet
        /\ thr = [t \in Threads |-> IdleThread]

\* The word of the for loop a thread is at.
CurWord(t) == Lower(thr[t].text[thr[t].k])

\* The for loop of query() moves on: the next token, or the matching loop.
Advance(rec, id) ==
    [rec EXCEPT !.query_ints = Append(@, id),
                !.k = @ + 1,
                !.pc = IF rec.k + 1 > Len(rec.text) THEN "rank" ELSE "test"]

\* search(search_term) is entered: query_ints = list() and the first token.
TBegin(t) ==
    /\ thr[t].pc = "idle"
    /\ \E text \in ConcTexts :
         thr' = [thr EXCEPT ![t] = [pc |-> "test", text |-> text, k |-> 1, n |-> 0,
                                    query_ints |-> <<>>]]
    /\ UNCHANGED <<words, pages, pc, i, j, ranks, ret>>

\* if word in self.words
TTest(t) ==
    /\ thr[t].pc = "test"
    /\ thr' = [thr EXCEPT ![t].pc = IF CurWord(t) \in DOMAIN words THEN "read" ELSE "len"]
    /\ UNCHANGED <<words, pages, pc, i, j, ranks, ret>>

\* return self.words[word]
TRead(t) ==
    /\ thr[t].pc = "read"
    /\ thr' = [thr EXCEPT ![t] = Advance(thr[t], words[CurWord(t)])]
    /\ UNCHANGED <<words, pages, pc, i, j, ranks, ret>>

\* len(self.words), the right-hand side of the assignment
TLen(t) ==
    /\ thr[t].pc = "len"
    /\ thr' = [thr EXCEPT ![t].n = Cardinality(DOMAIN words), ![t].pc = "store"]
    /\ UNCHANGED <<words, pages, pc, i, j, ranks, ret>>

\* self.words[word] = <that length>
TStore(t) ==
    /\ thr[t].pc = "store"
    /\ words' = [w \in DOMAIN words \cup {CurWord(t)} |->
                    IF w = CurWord(t) THEN thr[t].n ELSE words[w]]
    /\ thr' = [thr EXCEPT ![t].pc = "return"]
    /\ UNCHANGED <<pages, pc, i, j, ranks, ret>>

\* return len(self.words)-1
TReturn(t) ==
    /\ thr[t].pc = "return"
    /\ thr' = [thr EXCEPT ![t] = Advance(thr[t], Cardinality(DOMAIN words) - 1)]
    /\ UNCHANGED <<words, pages, pc, i, j, ranks, ret>>

\* The rest of query(), which reads self.pages only, and the response.
TRank(t) ==
    /\ thr[t].pc = "rank"
    /\ ret' = Rank(pages, thr[t].text, thr[t].query_ints,
                   FindMatches(pages, thr[t].query_ints, 1))
    /\ thr' = [thr EXCEPT ![t].pc = "done"]
    /\ UNCHANGED <<words, pages, pc, i, j, ranks>>

NextConc ==
    \E t \in Threads :
        \/ TBegin(t)
        \/ TTest(t)
        \/ TRead(t)
        \/ TLen(t)
        \/ TStore(t)
        \/ TReturn(t)
        \/ TRank(t)

SpecConc == InitConc /\ [][NextConc]_vars

(***************************************************************************)
(* Properties.                                                             *)
(***************************************************************************)
RangeOf(s) == {s[k] : k \in 1..Len(s)}

RECURSIVE SumTo(_, _)
SumTo(f, n) == IF n = 0 THEN 0 ELSE f[n] + SumTo(f, n - 1)

\* The recorded ids are exactly 0..n-1, hence one per term.
DictDense(ws) == {ws[w] : w \in DOMAIN ws} = 0..(Cardinality(DOMAIN ws) - 1)

\* ids, returned in this order on a dictionary of n terms, follow first-seen
\* order: each is one already given out or the next integer.
FirstSeen(ids, n) ==
    \A k \in 1..Len(ids) :
        LET prev == (0..(n - 1)) \cup {ids[m] : m \in 1..(k - 1)}
        IN ids[k] \in prev \/ ids[k] = Cardinality(prev)

\* The ids of the terms of the last query, read from the dictionary.
TermIds == {words[Lower(ret.text[t])] : t \in 1..Len(ret.text)}

\* The pages holding at least one term of the last query.
Candidates == {k \in 1..Len(pages) : RangeOf(pages[k].words) \cap TermIds # {}}

\* C1: given a corpus of zero pages, the constructor (ingestion, then the 20
\* passes of the solver) ends without a fault and leaves an empty page store,
\* and every query after it returns amount = 0 and an empty list.
C1_EmptyCorpusBuilds ==
    (pc # "ingest" /\ pages = <<>>) =>
        /\ pc # "fault"
        /\ ret.called => (ret.amount = 0 /\ ret.data = <<>>)

\* C2: after any sequential sequence of get_id_for_word calls, made by ingestion
\* or by queries, the n terms of the dictionary are mapped one-to-one onto
\* 0..n-1 in first-seen order; a term seen before gets the id it got the first
\* time, and asking for it leaves the dictionary as it was.
C2_Step ==
    /\ \A w \in DOMAIN words : w \in DOMAIN words' /\ words'[w] = words[w]
    /\ Len(pages') > Len(pages) =>
           FirstSeen(pages'[Len(pages')].words, Cardinality(DOMAIN words))
    /\ (pc = "serve" /\ ret'.called) =>
           /\ FirstSeen(ret'.query_ints, Cardinality(DOMAIN words))
           /\ (\A t \in 1..Len(ret'.text) : Lower(ret'.text[t]) \in DOMAIN words)
                  => words' = words

C2_DictionarySequential ==
    /\ [](/\ DictDense(words)
          /\ \A t \in 1..Len(ret.text) : ret.query_ints[t] = words[Lower(ret.text[t])])
    /\ [][C2_Step]_vars

C2_Witness ==
    /\ ret.called
    /\ ret.text = <<"Amp", "zz">>
    /\ ret.query_ints = <<0, 2>>
    /\ words["guitar"] = 1
    /\ Len(pages) = 2

\* C3: for every non-empty page store and every link graph over it (links to
\* absent identifiers, self-links and pages without outlinks included), once the
\* solver has finished its 20 passes every authority is non-negative and the
\* maximum authority of the store is exactly 1.0.
C3_AuthorityBounds ==
    (pc = "serve" /\ Len(pages) > 0) =>
        /\ \A k \in 1..Len(pages) : pages[k].pagerank.n >= 0 /\ Leq(pages[k].pagerank, One)
        /\ \E k \in 1..Len(pages) : pages[k].pagerank = One

C3_Witness ==
    /\ pc = "serve"
    /\ Len(pages) = 2
    /\ Absent \in pages[1].links
    /\ pages[1].url \in pages[1].links
    /\ pages[2].links = {}
    /\ pages[2].pagerank # One

\* C4: in every pass of the solver the tentative score of every page is
\* computed from the authorities the previous pass left: no authority is
\* overwritten before the tentative scores of all pages are computed.  Two pages
\* that link only to each other and have no other inlinks get identical
\* tentative scores.
LinkOnlyEachOther(a, b) ==
    /\ a # b
    /\ pages[a].links = {pages[b].url}
    /\ pages[b].links = {pages[a].url}
    /\ \A c \in 1..Len(pages) :
           (c # a /\ c # b) => pages[c].links \cap {pages[a].url, pages[b].url} = {}

C4_JacobiSnapshot ==
    pc = "compute" =>
        /\ \A k \in 1..Len(ranks) : ranks[k] = pagerank(pages, pages[k])
        /\ \A k \in 1..Len(pages) : i = 0 => pages[k].pagerank = One
        /\ Len(ranks) = Len(pages) =>
               \A a, b \in 1..Len(pages) : LinkOnlyEachOther(a, b) => ranks[a] = ranks[b]

C4_Witness ==
    /\ pc = "compute"
    /\ i = 0
    /\ Len(ranks) = 2
    /\ Len(pages) = 2
    /\ LinkOnlyEachOther(1, 2)
    /\ ranks[1] = ranks[2]

\* C5: the list a query returns is sorted by total in non-increasing order, has
\* min(5, number of candidates) rows, holds only candidates whose total is at
\* least that of every candidate left out, and amount is the number of
\* candidates before the list is cut.
C5_RankingOrder ==
    ret.called =>
        LET kept == {ret.data[k].url : k \in 1..Len(ret.data)}
        IN /\ \A k \in 1..(Len(ret.data) - 1) : Leq(ret.data[k + 1].total, ret.data[k].total)
           /\ Len(ret.data) = (IF Cardinality(Candidates) < 5 THEN Cardinality(Candidates) ELSE 5)
           /\ Cardinality(kept) = Len(ret.data)
           /\ RangeOf(ret.data) \subseteq RangeOf(ret.result)
           /\ kept \subseteq {pages[k].url : k \in Candidates}
           /\ \A r \in 1..Len(ret.result) :
                  ret.result[r].url \notin kept =>
                      \A k \in 1..Len(ret.data) : Leq(ret.result[r].total, ret.data[k].total)
           /\ ret.amount = Cardinality(Candidates)

C5_Witness ==
    /\ ret.called
    /\ ret.amount = 6
    /\ Len(ret.data) = 5
    /\ ret.data # SubSeq(ret.result, 1, 5)
    /\ ret.data[1].total # ret.data[5].total

\* C6: for a query with candidates, every normalized content-frequency value
\* and every normalized location value lies in (0, 1], and the candidate with
\* the smallest raw location score has normalized location exactly 1.0; no raw
\* score of a candidate is below the 0.00001 clamp.
C6_NormalizedRanges ==
    (ret.called /\ Len(ret.matches) > 0) =>
        /\ \A k \in 1..Len(ret.matches) :
               /\ ret.content[k].n > 0 /\ Leq(ret.content[k], One)
               /\ ret.location[k].n > 0 /\ Leq(ret.location[k], One)
               /\ Leq(Clamp, ret.raw_content[k]) /\ Leq(Clamp, ret.raw_location[k])
        /\ \A k \in 1..Len(ret.matches) :
               (\A m \in 1..Len(ret.matches) : Leq(ret.raw_location[k], ret.raw_location[m]))
                   => ret.location[k] = One

C6_Witness ==
    /\ ret.called
    /\ Len(ret.matches) >= 2
    /\ \E k \in 1..Len(ret.matches) : ret.location[k] # One
    /\ \E k \in 1..Len(ret.matches) : ret.content[k] # One

\* C7: when two or more queries run concurrently, interleaved at the reads and
\* writes of the dictionary inside get_id_for_word, the dictionary stays
\* consistent: no two terms share an id, the ids are exactly 0..n-1, and the id
\* each call returns for a term is the id recorded for that term.
C7_ConcurrentDictConsistent ==
    /\ DictDense(words)
    /\ \A t \in Threads :
           \A k \in 1..Len(thr[t].query_ints) :
               thr[t].query_ints[k] = words[Lower(thr[t].text[k])]

\* C8: a page is a candidate of a query iff at least one query term id occurs
\* in its words; each such page is counted once however many query terms it
\* holds; a query term not seen before the query matches no page.
C8_Step ==
    \A t \in 1..Len(ret'.text) :
        Lower(ret'.text[t]) \notin DOMAIN words =>
            \A k \in 1..Len(pages') :
                words'[Lower(ret'.text[t])] \notin RangeOf(pages'[k].words)

C8_CandidateSet ==
    /\ [](ret.called =>
            /\ RangeOf(ret.matches) = Candidates
            /\ Len(ret.matches) = Cardinality(Candidates)
            /\ ret.amount = Cardinality(Candidates))
    /\ [][C8_Step]_vars

C8_Witness ==
    /\ ret.called
    /\ ret.text = <<"guitar", "guitar">>
    /\ Len(pages) = 3
    /\ ret.amount = 2
    /\ Candidates = {1, 3}

\* C9: for every candidate and every list of query term ids, the raw
\* content-frequency score is the sum over the query term ids of the number of
\* occurrences of the id in the page's words, and the raw location score the sum
\* over the query term ids of (first index of the id) + 1, or of 100000 for an id
\* the page does not hold; words [guitar, guitar, amp] queried with "guitar" give
\* content 2 and location 1.
Occurrences(W, q) == Cardinality({p \in 1..Len(W) : W[p] = q})
FirstPosition(W, q) == CHOOSE p \in 1..Len(W) : W[p] = q /\ \A r \in 1..(p - 1) : W[r] # q

C9_RawScores ==
    ret.called =>
        \A k \in 1..Len(ret.matches) :
            LET W == pages[ret.matches[k]].words
                ids == ret.query_ints
            IN /\ ret.raw_content[k] =
                      Num(SumTo([t \in 1..Len(ids) |-> Occurrences(W, ids[t])], Len(ids)))
               /\ ret.raw_location[k] =
                      Num(SumTo([t \in 1..Len(ids) |->
                                    IF ids[t] \in RangeOf(W) THEN FirstPosition(W, ids[t])
                                    ELSE 100000], Len(ids)))

C9_Witness ==
    /\ ret.called
    /\ ret.text = <<"guitar">>
    /\ "amp" \in DOMAIN words
    /\ \E k \in 1..Len(ret.matches) :
           /\ pages[ret.matches[k]].words = <<words["guitar"], words["guitar"], words["amp"]>>
           /\ ret.raw_content[k] = Num(2)
           /\ ret.raw_location[k] = Num(1)
    /\ \E k \in 1..Len(pages) :
           pages[k].words = <<words["amp"]>> /\ k \notin RangeOf(ret.matches)

\* C10: a query leaves the page store as it was (the pages, their order, and
\* every page's url, words, links and pagerank); in the dictionary every mapping
\* is kept and each query term not in it before is added with the next
\* sequential id.
C10_Step ==
    pc = "serve" =>
        /\ pages' = pages
        /\ \A w \in DOMAIN words : w \in DOMAIN words' /\ words'[w] = words[w]
        /\ DOMAIN words' = DOMAIN words \cup {Lower(ret'.text[t]) : t \in 1..Len(ret'.text)}
        /\ {words'[w] : w \in DOMAIN words' \ DOMAIN words}
               = Cardinality(DOMAIN words)..(Cardinality(DOMAIN words') - 1)

C10_QueryFrame == [][C10_Step]_vars

C10_Witness ==
    /\ ret.called
    /\ ret.text = <<"guitar", "zz">>
    /\ ret.amount > 0
    /\ words["zz"] = 3
    /\ \E k \in 1..Len(pages) : pages[k].pagerank # One

\* The step-wise constructor ends in the state Build computes.
StepwiseIsBuild ==
    pc = "serve" =>
        pages = Solve(AssignRanks(pages, [k \in 1..Len(pages) |-> One], 1), 0)

====
